---- MODULE Spec2Model ----
(***************************************************************************)
(* Model of lambda/lambda_function.py: the Terraform troubleshooting       *)
(* pipeline (fetch files, fetch the failed run's log, diagnose, synthesize *)
(* edits, publish a branch and a pull request).                            *)
(*                                                                         *)
(* Text is modelled as a tuple of one-character strings so that lower(),   *)
(* strip(), splitlines() and join() are computed, not assumed.             *)
(***************************************************************************)
EXTENDS Integers, Sequences, FiniteSets, TLC

\* ------------------------------------------------------------------ bounds
MaxLogLines == 3
MaxListing == 2

\* ------------------------------------------------------------- text basics
NL == "\n"

\* str.lower() on one character (the letters that occur in the model)
Lower(c) ==
    CASE c = "E" -> "e"
      [] c = "R" -> "r"
      [] c = "O" -> "o"
      [] c = "K" -> "k"
      [] OTHER -> c

ToLower(s) == [i \in 1..Len(s) |-> Lower(s[i])]

\* the whitespace str.strip() removes
IsSpace(c) == c \in {" ", "\n", "\t"}

\* str.strip()
Strip(s) ==
    LET keep == {i \in 1..Len(s) : ~IsSpace(s[i])}
    IN  IF keep = {} THEN <<>>
        ELSE LET first == CHOOSE i \in keep : \A j \in keep : i <= j
                 last  == CHOOSE i \in keep : \A j \in keep : j <= i
             IN  SubSeq(s, first, last)

\* m in s (substring test), m non-empty
Contains(s, m) ==
    \E i \in 1..(Len(s) - Len(m) + 1) : SubSeq(s, i, i + Len(m) - 1) = m

\* str.splitlines() for "\n" line ends
RECURSIVE SplitFrom(_, _, _, _)
SplitFrom(s, i, cur, acc) ==
    IF i > Len(s) THEN (IF cur = <<>> THEN acc ELSE Append(acc, cur))
    ELSE IF s[i] = NL THEN SplitFrom(s, i + 1, <<>>, Append(acc, cur))
    ELSE SplitFrom(s, i + 1, Append(cur, s[i]), acc)

SplitLines(s) == SplitFrom(s, 1, <<>>, <<>>)

\* "\n".join(lines)
RECURSIVE JoinLines(_)
JoinLines(lines) ==
    IF lines = <<>> THEN <<>>
    ELSE IF Len(lines) = 1 THEN lines[1]
    ELSE lines[1] \o <<NL>> \o JoinLines(Tail(lines))

\* ------------------------------------------------------- Failure Extractor
\* the marker of line 76
Marker == <<"e", "r", "r", "o", "r">>

\* a case-sensitive test: what line 76 would be without .lower()
LineMatchesCaseSensitive(line) == Contains(line, Marker)

\* line 76: "error" in line.lower()
LineMatches(line) == Contains(ToLower(line), Marker)

\* the loop of lines 75-77
RECURSIVE ExtractLoop(_, _, _)
ExtractLoop(lines, i, error_logs) ==
    IF i > Len(lines) THEN error_logs
    ELSE ExtractLoop(lines, i + 1,
                     IF LineMatches(lines[i])
                     THEN Append(error_logs, Strip(lines[i]))
                     ELSE error_logs)

extract_error_with_context(log_content) ==
    JoinLines(ExtractLoop(SplitLines(log_content), 1, <<>>))

\* ------------------------------------------------------------- input logs
LogLines ==
    { <<"E", "r", "r", "o", "r">>,
      <<" ", "e", "R", "R", "o", "r", " ">>,
      <<"o", "k">>,
      <<" ", "o", "k">>,
      <<"e", "r", "r">> }

RECURSIVE SeqsUpTo(_, _)
SeqsUpTo(S, n) ==
    IF n = 0 THEN {<<>>}
    ELSE LET shorter == SeqsUpTo(S, n - 1)
         IN  shorter \cup {Append(q, x) : q \in shorter, x \in S}

\* log texts: up to MaxLogLines lines, with or without a final line end
LogContents ==
    LET texts == {JoinLines(ls) : ls \in SeqsUpTo(LogLines, MaxLogLines)}
    IN  texts \cup {t \o <<NL>> : t \in texts}


\* -------------------------------------------------------------- constants
PyNone == [t |-> "None", s |-> <<>>]
Str(s) == [t |-> "str", s |-> s]

\* the three literal return values of fetch_github_actions_details
NoRunsText ==
    <<"N","o"," ","w","o","r","k","f","l","o","w"," ","r","u","n","s"," ","f","o","u","n","d",".">>
DidNotFailText ==
    <<"L","a","t","e","s","t"," ","w","o","r","k","f","l","o","w"," ","r","u","n"," ","d","i","d"," ","n","o","t"," ","f","a","i","l",".">>
LogNotFoundText ==
    <<"T","e","r","r","a","f","o","r","m"," ","l","o","g"," ","f","i","l","e"," ","n","o","t"," ","f","o","u","n","d"," ","i","n"," ","w","o","r","k","f","l","o","w"," ","a","r","t","i","f","a","c","t","s",".">>

\* the keys lambda_handler reads from the event, in the order of lines 296-300
ReadOrder == <<"workspace_url", "repo_url", "branch_name", "actionGroup", "function">>
EventKeys == {ReadOrder[i] : i \in 1..Len(ReadOrder)} \cup {"messageVersion"}
RepoUrls == {"", "https://github.com/org/infra"}

\* directory entries of the contents API (name, type)
DirItems ==
    { [type |-> "file", name |-> <<"a", ".", "t", "f">>],
      [type |-> "file", name |-> <<"v", ".", "t", "f", "v", "a", "r", "s">>],
      [type |-> "file", name |-> <<"r", ".", "m", "d">>],
      [type |-> "dir",  name |-> <<"d", ".", "t", "f">>] }
Listings ==
    {l \in SeqsUpTo(DirItems, MaxListing) :
        \A i, j \in 1..Len(l) : i # j => l[i].name # l[j].name}
FileText == <<"r", "e", "s">>

\* line 91
terraform_extensions == << <<".", "t", "f">>, <<".", "t", "f", "v", "a", "r", "s">> >>

EndsWith(s, suffix) ==
    /\ Len(s) >= Len(suffix)
    /\ SubSeq(s, Len(s) - Len(suffix) + 1, Len(s)) = suffix

\* line 94 without the test of the entry's type
QualifiesAnyType(item) ==
    \E e \in 1..Len(terraform_extensions) : EndsWith(item.name, terraform_extensions[e])

\* line 94
Qualifies(item) ==
    /\ item.type = "file"
    /\ \E e \in 1..Len(terraform_extensions) : EndsWith(item.name, terraform_extensions[e])

\* a loop that looks at the entry it has just retrieved again
NextQualifyingAgain(items, i) ==
    LET from == IF i > 1 THEN i - 1 ELSE 1
        cand == {j \in from..Len(items) : Qualifies(items[j])}
    IN  IF cand = {} THEN Len(items) + 1
        ELSE CHOOSE j \in cand : \A k \in cand : j <= k

\* the next index >= i of the loop of line 93 whose entry passes line 94
NextQualifying(items, i) ==
    LET cand == {j \in i..Len(items) : Qualifies(items[j])}
    IN  IF cand = {} THEN Len(items) + 1
        ELSE CHOOSE j \in cand : \A k \in cand : j <= k

\* lines 97-98: one block of the serialized file set
FileBlock(name, text) ==
    <<"F", "i", "l", "e", ":", " ">> \o name \o <<NL>> \o text \o <<NL, NL>>

\* the logs the pipeline runs on (a few of LogContents)
PipelineLogs ==
    { <<"o", "k">>,
      JoinLines(<< <<"E", "r", "r", "o", "r">>, <<"o", "k">> >>),
      JoinLines(<< <<" ", "e", "R", "R", "o", "r", " ">>, <<"e", "r", "r">> >>) \o <<NL>> }

Conclusions == {"failure", "success"}
LatestRuns == [conclusion : Conclusions, has_logs_url : BOOLEAN]

DiagText == <<"f", "i", "x">>

\* ---------------------------------------------------------- git objects
NoObj == [k |-> "none"]
Blob(content) == [k |-> "blob", content |-> content]
Tree(entries) == [k |-> "tree", entries |-> entries]
Commit(tree, parents, message) ==
    [k |-> "commit", tree |-> tree, parents |-> parents, message |-> message]

OldEntry == [mode |-> "100755", type |-> "blob", sha |-> Blob(<<"o", "l", "d">>)]
BaseTrees ==
    { Tree([p \in {"main.tf", "README.md"} |-> OldEntry]),
      Tree([p \in {"LICENSE"} |-> OldEntry]) }
BaseCommits == {Commit(t, <<>>, "init") : t \in BaseTrees}
OtherCommit == Commit(Tree([p \in {"x"} |-> OldEntry]), <<>>, "other")

BranchNames == {"main", "fix"}
PayloadPaths == {"main.tf", "vars.tf"}
PayloadContents == { <<"a">>, <<" ", "b", NL>> }

\* the files mappings of the parsed response, in key order
FileSeqs ==
    {fs \in SeqsUpTo([path : PayloadPaths, content : PayloadContents],
                     Cardinality(PayloadPaths)) :
        \A i, j \in 1..Len(fs) : i # j => fs[i].path # fs[j].path}

\* what json.loads of the stripped model output can give
ModelOutputs ==
    {[kind |-> "not_json", branch_name |-> "", files |-> <<>>],
     [kind |-> "no_files", branch_name |-> "fix", files |-> <<>>]}
    \cup [kind : {"payload"}, branch_name : BranchNames, files : FileSeqs]
NoOutput == [kind |-> "none", branch_name |-> "", files |-> <<>>]

\* ------------------------------------------------------------------ state
VARIABLES
    event,                \* the invocation event: present keys -> values
    pc,                   \* the call the invocation is about to issue
    listing, idx,         \* fetch_files_from_github: response.json(), loop index
    repo_files_content,
    workflow_runs,        \* fetch_github_actions_details: the runs returned
    log_content,          \* the decoded 0_terraform.txt (line 58)
    error_message,
    troubleshooting_steps,
    fixed_code,           \* the parsed Edit Synthesis output
    files, new_branch_name, base_commit, bidx, blobs,
    base_tree_sha, new_tree_sha, new_commit_sha,
    refs, prs,            \* the remote repository: refs and pull requests
    calls,                \* the remote calls issued so far, in order
    result,               \* how lambda_handler ended
    other                 \* the publisher state of a second invocation

fetchVars == <<listing, idx, repo_files_content>>
runVars == <<workflow_runs, log_content, error_message>>
modelVars == <<troubleshooting_steps, fixed_code>>
pubVars == <<files, new_branch_name, base_commit, bidx, blobs,
             base_tree_sha, new_tree_sha, new_commit_sha>>
remoteVars == <<refs, prs>>
vars == <<event, pc, fetchVars, runVars, modelVars, pubVars, remoteVars, calls, result,
          other>>

NoResult == [kind |-> "none", body |-> "", detail |-> ""]

\* no second invocation
NoOther == [id |-> 0]

Call(op, arg, status) == [op |-> op, arg |-> arg, status |-> status]

\* lines 370-402: the two except clauses of lambda_handler, entered with
\* exception class cls while the locals in bound are assigned
HandlerOutcome(cls, detail, bound) ==
    IF ~({"actionGroup", "function"} \subseteq bound)
    THEN [kind |-> "raised", body |-> "", detail |-> "UnboundLocalError"]
    ELSE IF "messageVersion" \notin DOMAIN event
    THEN [kind |-> "raised", body |-> "", detail |-> "KeyError: messageVersion"]
    ELSE [kind |-> "returned",
          body |-> IF cls = "KeyError" THEN "Missing required information" ELSE "Error",
          detail |-> detail]

AllLocals == {ReadOrder[i] : i \in 1..Len(ReadOrder)}

\* an exception raised inside the try block after line 300
Abort(cls, detail) ==
    /\ pc' = "done"
    /\ result' = HandlerOutcome(cls, detail, AllLocals)

InitRemote ==
    /\ \E c \in BaseCommits, f \in {NoObj, OtherCommit} :
          refs = [b \in BranchNames |-> IF b = "main" THEN c ELSE f]
    /\ prs = {}

InitLocals ==
    /\ listing = <<>> /\ idx = 0 /\ repo_files_content = <<>>
    /\ workflow_runs = <<>> /\ log_content = <<>> /\ error_message = PyNone
    /\ troubleshooting_steps = <<>> /\ fixed_code = NoOutput
    /\ files = <<>> /\ new_branch_name = "" /\ base_commit = NoObj
    /\ bidx = 0 /\ blobs = <<>>
    /\ base_tree_sha = NoObj /\ new_tree_sha = NoObj /\ new_commit_sha = NoObj
    /\ calls = <<>> /\ result = NoResult

Init ==
    /\ \E K \in SUBSET EventKeys, u \in RepoUrls :
          event = [k \in K |-> IF k = "repo_url" THEN u ELSE "v"]
    /\ pc = "entry"
    /\ InitLocals
    /\ InitRemote
    /\ other = NoOther

\* lines 293-305
Entry ==
    /\ pc = "entry"
    /\ LET missing == {i \in 1..Len(ReadOrder) : ReadOrder[i] \notin DOMAIN event}
       IN  IF missing # {}
           THEN LET first == CHOOSE i \in missing : \A j \in missing : i <= j
                IN  /\ pc' = "done"
                    /\ result' = HandlerOutcome("KeyError", ReadOrder[first],
                                                {ReadOrder[j] : j \in 1..(first - 1)})
           ELSE /\ pc' = IF event["repo_url"] # "" THEN "listing" ELSE "runs"
                /\ result' = result
    /\ UNCHANGED <<other, event, fetchVars, runVars, modelVars, pubVars, remoteVars, calls>>


\* -------------------------------------------------------- Source Fetcher
\* lines 87-94: the directory listing call, then the loop up to the first
\* entry whose content is retrieved (line 100 and 308 when there is none)
FetchListing ==
    /\ pc = "listing"
    /\ \E status \in {"200", "http", "net"} :
          /\ calls' = Append(calls, Call("list_directory", <<>>, status))
          /\ IF status = "200"
             THEN \E items \in Listings :
                     LET n == NextQualifying(items, 1)
                     IN  /\ idx' = n
                         /\ listing' = items
                         /\ pc' = IF n > Len(items) THEN "runs" ELSE "files"
                         /\ UNCHANGED <<repo_files_content, result>>
             ELSE /\ Abort("Exception", "fetch_files_from_github")
                  /\ UNCHANGED fetchVars
    /\ UNCHANGED <<other, event, runVars, modelVars, pubVars, remoteVars>>

\* lines 95-98 for entry idx, then the loop up to the next retrieved entry
FetchFile ==
    /\ pc = "files"
    /\ idx <= Len(listing)
    /\ \E status \in {"200", "http", "net"} :
          /\ calls' = Append(calls, Call("get_file", listing[idx].name, status))
          /\ IF status = "200"
             THEN LET n == NextQualifying(listing, idx + 1)
                  IN  /\ repo_files_content' =
                            repo_files_content \o FileBlock(listing[idx].name, FileText)
                      /\ idx' = n
                      /\ listing' = listing
                      /\ pc' = IF n > Len(listing) THEN "runs" ELSE "files"
                      /\ UNCHANGED result
             ELSE /\ Abort("Exception", "fetch_files_from_github")
                  /\ UNCHANGED fetchVars
    /\ UNCHANGED <<other, event, runVars, modelVars, pubVars, remoteVars>>

\* ------------------------------------------------------ Failure Extractor
\* lines 318-321, reached with the value fetch_github_actions_details returned
AfterExtraction(msg) ==
    /\ error_message' = msg
    /\ IF msg = PyNone /\ repo_files_content = <<>>
       THEN Abort("KeyError", "Neither files_content nor error_message")
       ELSE pc' = "diagnose" /\ UNCHANGED result

\* lines 30-41 and 64: the latest-run query (with an empty repo_url the
\* request goes to repos//actions/runs, which the remote cannot answer 200).
\* fetch_files_from_github has returned: its locals (the listing and the loop
\* position) are gone, only repo_files_content is left.
FetchRuns ==
    /\ pc = "runs"
    /\ \E status \in (IF event["repo_url"] = "" THEN {"http", "net"}
                      ELSE {"200", "http", "net"}) :
          /\ calls' = Append(calls, Call("get_runs", <<>>, status))
          /\ IF status = "200"
             THEN \E runs \in {<<>>} \cup {<<r>> : r \in LatestRuns} :
                     /\ workflow_runs' = runs
                     /\ log_content' = log_content
                     /\ IF runs = <<>>
                        THEN AfterExtraction(Str(NoRunsText))
                        ELSE IF runs[1].conclusion = "failure" /\ runs[1].has_logs_url
                        THEN /\ pc' = "logs"
                             /\ UNCHANGED <<error_message, result>>
                        ELSE AfterExtraction(Str(DidNotFailText))
             ELSE /\ Abort("Exception", "fetch_github_actions_details")
                  /\ UNCHANGED runVars
    /\ listing' = <<>>
    /\ idx' = 0
    /\ UNCHANGED <<other, event, repo_files_content, modelVars, pubVars, remoteVars>>

\* lines 43-62: the log archive download and the scan of 0_terraform.txt
FetchLogs ==
    /\ pc = "logs"
    /\ \E status \in {"200", "http", "net"} :
          /\ calls' = Append(calls, Call("get_logs", <<>>, status))
          /\ IF status = "200"
             THEN \E archive \in {"bad_zip", "no_entry", "entry"} :
                     /\ UNCHANGED workflow_runs
                     /\ IF archive = "bad_zip"
                        THEN /\ Abort("Exception", "fetch_github_actions_details")
                             /\ UNCHANGED <<log_content, error_message>>
                        ELSE IF archive = "no_entry"
                        THEN /\ AfterExtraction(Str(LogNotFoundText))
                             /\ UNCHANGED log_content
                        ELSE \E text \in PipelineLogs :
                                /\ log_content' = text
                                /\ AfterExtraction(Str(extract_error_with_context(text)))
             ELSE /\ Abort("Exception", "fetch_github_actions_details")
                  /\ UNCHANGED runVars
    /\ UNCHANGED <<other, event, fetchVars, modelVars, pubVars, remoteVars>>

\* --------------------------------------------- Diagnosis and Edit Synthesis
\* line 343 (invoke_bedrock_model, lines 102-128), then lines 346-363
Diagnose ==
    /\ pc = "diagnose"
    /\ \E status \in {"ok", "err"} :
          /\ calls' = Append(calls, Call("invoke_model", <<"d">>, status))
          /\ IF status = "ok"
             THEN /\ troubleshooting_steps' = DiagText
                  /\ IF "messageVersion" \in DOMAIN event
                     THEN pc' = "remediate" /\ UNCHANGED result
                     ELSE Abort("KeyError", "messageVersion")
             ELSE /\ Abort("Exception", "invoke_bedrock_model")
                  /\ UNCHANGED troubleshooting_steps
    /\ UNCHANGED <<other, event, fetchVars, runVars, fixed_code, pubVars, remoteVars>>

\* lines 181-182
StrippedFiles(out) ==
    [i \in 1..Len(out.files) |->
        [path |-> out.files[i].path, content |-> Strip(out.files[i].content)]]

\* lines 173-182 of create_new_branch, applied to the model output
ParsePayload(out) ==
    IF out.kind = "payload"
    THEN /\ new_branch_name' = out.branch_name
         /\ files' = StrippedFiles(out)
         /\ pc' = "base_ref"
         /\ UNCHANGED result
    ELSE /\ Abort("Exception",
                  IF out.kind = "not_json" THEN "JSONDecodeError" ELSE "AttributeError")
         /\ UNCHANGED <<new_branch_name, files>>

\* line 365 (remediate_code, lines 130-168), then lines 171-190
Remediate ==
    /\ pc = "remediate"
    /\ \E status \in {"ok", "err"} :
          /\ calls' = Append(calls, Call("invoke_model", <<"e">>, status))
          /\ IF status = "ok"
             THEN \E out \in ModelOutputs :
                     /\ fixed_code' = out
                     /\ ParsePayload(out)
             ELSE /\ Abort("Exception", "invoke_bedrock_model")
                  /\ UNCHANGED <<fixed_code, new_branch_name, files>>
    /\ UNCHANGED <<other, event, fetchVars, runVars, troubleshooting_steps, remoteVars,
                   base_commit, bidx, blobs, base_tree_sha, new_tree_sha, new_commit_sha>>


\* ------------------------------------------------------- Change Publisher
\* the remote's reading of a create-blob body
B64Encode(text) == [b64 |-> text]
RemoteCreateBlob(payload) ==
    Blob(IF payload.encoding = "base64" THEN payload.content.b64 ELSE payload.content)

\* lines 224-227
BlobPayload(file_content) == [content |-> B64Encode(file_content), encoding |-> "base64"]

\* line 233
BlobEntry(file_name, blob_sha) ==
    [path |-> file_name, mode |-> "100644", type |-> "blob", sha |-> blob_sha]

\* a create-tree body that names no base tree
TreeRequestNoBase(base, entries) == [base_tree |-> NoObj, tree |-> entries]

\* line 242
TreeRequest(base, entries) == [base_tree |-> base, tree |-> entries]

\* the remote's create-tree: the entries of the request laid over the base
\* tree it names (over nothing when it names none)
RemoteCreateTree(req) ==
    LET under == IF req.base_tree = NoObj THEN <<>> ELSE req.base_tree.entries
        named == {req.tree[i].path : i \in 1..Len(req.tree)}
        lastOf(p) == CHOOSE i \in 1..Len(req.tree) :
                        /\ req.tree[i].path = p
                        /\ \A j \in 1..Len(req.tree) : req.tree[j].path = p => j <= i
    IN  Tree([p \in (DOMAIN under) \cup named |->
                IF p \in named
                THEN [mode |-> req.tree[lastOf(p)].mode,
                      type |-> req.tree[lastOf(p)].type,
                      sha  |-> req.tree[lastOf(p)].sha]
                ELSE under[p]])

\* an existence check that never reports a conflict
ExistsCheckNeverAborts(status) == FALSE

\* line 203: the existence check raises on this status
ExistsCheckAborts(status) == status = "200"

\* lines 193-196: resolve the tip of main
GetBaseRef ==
    /\ pc = "base_ref"
    /\ \E status \in {"200", "http", "net"} :
          /\ calls' = Append(calls, Call("get_base_ref", <<"main">>, status))
          /\ IF status = "200"
             THEN /\ base_commit' = refs["main"]
                  /\ pc' = "exists"
                  /\ UNCHANGED result
             ELSE /\ IF status = "http" THEN Abort("KeyError", "object")
                                        ELSE Abort("Exception", "get base ref")
                  /\ UNCHANGED base_commit
    /\ UNCHANGED <<other, event, fetchVars, runVars, modelVars, remoteVars, files,
                   new_branch_name, bidx, blobs, base_tree_sha, new_tree_sha,
                   new_commit_sha>>

\* lines 200-204: the existence check
ExistsCheck ==
    /\ pc = "exists"
    /\ \E status \in {IF refs[new_branch_name] # NoObj THEN "200" ELSE "404",
                      "http", "net"} :
          /\ calls' = Append(calls, Call("exists_check", <<new_branch_name>>, status))
          /\ IF status = "net"
             THEN Abort("Exception", "existence check")
             ELSE IF ExistsCheckAborts(status)
             THEN Abort("Exception", "Branch already exists")
             ELSE pc' = "create_ref" /\ UNCHANGED result
    /\ UNCHANGED <<other, event, fetchVars, runVars, modelVars, pubVars, remoteVars>>

\* a create-ref response that is never looked at
CreateRefUnchecked(status) == TRUE

\* line 215
CreateRefSucceeded(status) == status = "201"

\* lines 209-219: create the branch ref at the base tip, then lines 222-223
CreateRef ==
    /\ pc = "create_ref"
    /\ \E status \in (IF refs[new_branch_name] # NoObj THEN {} ELSE {"201"})
                     \cup {"http", "net"} :
          /\ calls' = Append(calls, Call("create_ref", <<new_branch_name>>, status))
          /\ refs' = IF status = "201"
                     THEN [refs EXCEPT ![new_branch_name] = base_commit]
                     ELSE refs
          /\ IF status # "net" /\ CreateRefSucceeded(status)
             THEN /\ blobs' = <<>>
                  /\ bidx' = 1
                  /\ pc' = IF files = <<>> THEN "get_tree" ELSE "blobs"
                  /\ UNCHANGED result
             ELSE /\ Abort("Exception", "Failed to create branch")
                  /\ UNCHANGED <<blobs, bidx>>
    /\ UNCHANGED <<other, event, fetchVars, runVars, modelVars, prs, files, new_branch_name,
                   base_commit, base_tree_sha, new_tree_sha, new_commit_sha>>

\* lines 224-233 for file bidx
CreateBlob ==
    /\ pc = "blobs"
    /\ bidx <= Len(files)
    /\ \E status \in {"201", "http", "net"} :
          /\ calls' = Append(calls, Call("create_blob", <<files[bidx].path>>, status))
          /\ IF status = "201"
             THEN /\ blobs' = Append(blobs,
                        BlobEntry(files[bidx].path,
                                  RemoteCreateBlob(BlobPayload(files[bidx].content))))
                  /\ bidx' = bidx + 1
                  /\ pc' = IF bidx = Len(files) THEN "get_tree" ELSE "blobs"
                  /\ UNCHANGED result
             ELSE /\ IF status = "http" THEN Abort("KeyError", "sha")
                                        ELSE Abort("Exception", "create blob")
                  /\ UNCHANGED <<blobs, bidx>>
    /\ UNCHANGED <<other, event, fetchVars, runVars, modelVars, remoteVars, files,
                   new_branch_name, base_commit, base_tree_sha, new_tree_sha,
                   new_commit_sha>>

\* lines 236-239: the tree of the base commit
GetTree ==
    /\ pc = "get_tree"
    /\ \E status \in {"200", "http", "net"} :
          /\ calls' = Append(calls, Call("get_tree", <<>>, status))
          /\ IF status = "200"
             THEN /\ base_tree_sha' = base_commit.tree
                  /\ pc' = "create_tree"
                  /\ UNCHANGED result
             ELSE /\ IF status = "http" THEN Abort("KeyError", "sha")
                                        ELSE Abort("Exception", "get tree")
                  /\ UNCHANGED base_tree_sha
    /\ UNCHANGED <<other, event, fetchVars, runVars, modelVars, remoteVars, files,
                   new_branch_name, base_commit, bidx, blobs, new_tree_sha,
                   new_commit_sha>>

\* lines 240-244
CreateTree ==
    /\ pc = "create_tree"
    /\ \E status \in {"201", "http", "net"} :
          /\ calls' = Append(calls, Call("create_tree", <<>>, status))
          /\ IF status = "201"
             THEN /\ new_tree_sha' = RemoteCreateTree(TreeRequest(base_tree_sha, blobs))
                  /\ pc' = "create_commit"
                  /\ UNCHANGED result
             ELSE /\ IF status = "http" THEN Abort("KeyError", "sha")
                                        ELSE Abort("Exception", "create tree")
                  /\ UNCHANGED new_tree_sha
    /\ UNCHANGED <<other, event, fetchVars, runVars, modelVars, remoteVars, files,
                   new_branch_name, base_commit, bidx, blobs, base_tree_sha,
                   new_commit_sha>>

\* a create-commit body without parents
CommitRequestNoParent(message, tree, parent) ==
    [message |-> message, tree |-> tree, parents |-> <<>>]

\* line 249
CommitRequest(message, tree, parent) ==
    [message |-> message, tree |-> tree, parents |-> <<parent>>]

\* the remote's create-commit
RemoteCreateCommit(req) == Commit(req.tree, req.parents, req.message)

\* lines 247-251
CreateCommit ==
    /\ pc = "create_commit"
    /\ \E status \in {"201", "http", "net"} :
          /\ calls' = Append(calls, Call("create_commit", <<>>, status))
          /\ IF status = "201"
             THEN /\ new_commit_sha' =
                        RemoteCreateCommit(CommitRequest("fix", new_tree_sha, base_commit))
                  /\ pc' = "update_ref"
                  /\ UNCHANGED result
             ELSE /\ IF status = "http" THEN Abort("KeyError", "sha")
                                        ELSE Abort("Exception", "create commit")
                  /\ UNCHANGED new_commit_sha
    /\ UNCHANGED <<other, event, fetchVars, runVars, modelVars, remoteVars, files,
                   new_branch_name, base_commit, bidx, blobs, base_tree_sha,
                   new_tree_sha>>

\* lines 254-258: the response of the update is not looked at
UpdateRef ==
    /\ pc = "update_ref"
    /\ \E status \in {"200", "http", "net"} :
          /\ calls' = Append(calls, Call("update_ref", <<new_branch_name>>, status))
          /\ refs' = IF status = "200"
                     THEN [refs EXCEPT ![new_branch_name] = new_commit_sha]
                     ELSE refs
          /\ IF status = "net"
             THEN Abort("Exception", "update ref")
             ELSE pc' = "create_pr" /\ UNCHANGED result
    /\ UNCHANGED <<other, event, fetchVars, runVars, modelVars, pubVars, prs>>

\* a create-pull-request response that is never looked at
PullRequestUnchecked(status) == TRUE

\* line 285
PullRequestCreated(status) == status = "201"

\* lines 272-277
PullRequestPayload(head, base) == [head |-> head, base |-> base]

\* line 260 (create_pull_request, lines 265-290), then lines 262 and 368
CreatePullRequest ==
    /\ pc = "create_pr"
    /\ \E status \in (IF refs[new_branch_name] \notin {NoObj, refs["main"]}
                      THEN {"201"} ELSE {}) \cup {"http", "net"} :
          /\ calls' = Append(calls, Call("create_pr", <<new_branch_name>>, status))
          /\ pc' = "done"
          /\ prs' = IF status = "201"
                    THEN prs \cup {PullRequestPayload(new_branch_name, "main")}
                    ELSE prs
          /\ IF status # "net" /\ PullRequestCreated(status)
             THEN result' = [kind |-> "returned", body |-> "success", detail |-> ""]
             ELSE result' = HandlerOutcome("Exception",
                                           "Failed to create pull request", AllLocals)
    /\ UNCHANGED <<other, event, fetchVars, runVars, modelVars, pubVars, refs>>

Next ==
    \/ Entry
    \/ FetchListing
    \/ FetchFile
    \/ FetchRuns
    \/ FetchLogs
    \/ Diagnose
    \/ Remediate
    \/ GetBaseRef
    \/ ExistsCheck
    \/ CreateRef
    \/ CreateBlob
    \/ GetTree
    \/ CreateTree
    \/ CreateCommit
    \/ UpdateRef
    \/ CreatePullRequest

Spec == Init /\ [][Next]_vars

TypeOK ==
    /\ pc \in {"entry", "listing", "files", "runs", "logs", "diagnose", "remediate",
               "base_ref", "exists", "create_ref", "blobs", "get_tree", "create_tree",
               "create_commit", "update_ref", "create_pr", "done",
               "extract", "extracted"}
    /\ result.kind \in {"none", "returned", "raised"}
    /\ (pc = "done") = (result.kind # "none")
    /\ error_message.t \in {"None", "str"}


\* ------------------------------------- the extractor on its own, on any log
InitExtract ==
    /\ event = <<>>
    /\ pc = "extract"
    /\ log_content \in LogContents
    /\ listing = <<>> /\ idx = 0 /\ repo_files_content = <<>>
    /\ workflow_runs = <<>> /\ error_message = PyNone
    /\ troubleshooting_steps = <<>> /\ fixed_code = NoOutput
    /\ files = <<>> /\ new_branch_name = "" /\ base_commit = NoObj
    /\ bidx = 0 /\ blobs = <<>>
    /\ base_tree_sha = NoObj /\ new_tree_sha = NoObj /\ new_commit_sha = NoObj
    /\ calls = <<>> /\ result = NoResult
    /\ InitRemote
    /\ other = NoOther

\* lines 57-59: the scan of the decoded log and its return value
ExtractLog ==
    /\ pc = "extract"
    /\ error_message' = Str(extract_error_with_context(log_content))
    /\ pc' = "extracted"
    /\ UNCHANGED <<other, event, fetchVars, workflow_runs, log_content, modelVars, pubVars,
                   remoteVars, calls, result>>

NextExtract == ExtractLog

SpecExtract == InitExtract /\ [][NextExtract]_vars


\* ------------------------------------------------- two invocations
\* the payloads the two-invocation runs publish
PublishPayloads == {out \in ModelOutputs : out.kind = "payload" /\ Len(out.files) <= 1}

\* the calls of an invocation that found no Terraform file and no workflow
\* run, up to the return of remediate_code
CallsBeforePublish ==
    << Call("list_directory", <<>>, "200"), Call("get_runs", <<>>, "200"),
       Call("invoke_model", <<"d">>, "ok"), Call("invoke_model", <<"e">>, "ok") >>

\* the publisher state of the running invocation, as a record
Saved(id) ==
    [id |-> id, pc |-> pc, fixed_code |-> fixed_code, files |-> files,
     new_branch_name |-> new_branch_name, base_commit |-> base_commit,
     bidx |-> bidx, blobs |-> blobs, base_tree_sha |-> base_tree_sha,
     new_tree_sha |-> new_tree_sha, new_commit_sha |-> new_commit_sha,
     calls |-> calls, result |-> result]

\* an invocation about to run line 193 with the parsed output out
SavedAtPublish(id, out) ==
    [id |-> id, pc |-> "base_ref", fixed_code |-> out, files |-> StrippedFiles(out),
     new_branch_name |-> out.branch_name, base_commit |-> NoObj,
     bidx |-> 0, blobs |-> <<>>, base_tree_sha |-> NoObj,
     new_tree_sha |-> NoObj, new_commit_sha |-> NoObj,
     calls |-> CallsBeforePublish, result |-> NoResult]

\* the running invocation takes the publisher state sv
Resume(sv) ==
    /\ pc' = sv.pc /\ fixed_code' = sv.fixed_code /\ files' = sv.files
    /\ new_branch_name' = sv.new_branch_name /\ base_commit' = sv.base_commit
    /\ bidx' = sv.bidx /\ blobs' = sv.blobs /\ base_tree_sha' = sv.base_tree_sha
    /\ new_tree_sha' = sv.new_tree_sha /\ new_commit_sha' = sv.new_commit_sha
    /\ calls' = sv.calls /\ result' = sv.result

\* the part of an invocation at line 193 that both invocations share
InitSharedAtPublish ==
    /\ event = [k \in EventKeys |->
                  IF k = "repo_url" THEN "https://github.com/org/infra" ELSE "v"]
    /\ listing = <<>> /\ idx = 0 /\ repo_files_content = <<>>
    /\ workflow_runs = <<>> /\ log_content = <<>> /\ error_message = Str(NoRunsText)
    /\ troubleshooting_steps = DiagText

InitAtPublish(out) ==
    /\ InitSharedAtPublish
    /\ pc = "base_ref" /\ fixed_code = out /\ files = StrippedFiles(out)
    /\ new_branch_name = out.branch_name /\ base_commit = NoObj
    /\ bidx = 0 /\ blobs = <<>>
    /\ base_tree_sha = NoObj /\ new_tree_sha = NoObj /\ new_commit_sha = NoObj
    /\ calls = CallsBeforePublish /\ result = NoResult

\* lines 192-262 and 265-290: one call of the running invocation's publish
PublishStep ==
    \/ GetBaseRef
    \/ ExistsCheck
    \/ CreateRef
    \/ CreateBlob
    \/ GetTree
    \/ CreateTree
    \/ CreateCommit
    \/ UpdateRef
    \/ CreatePullRequest

\* two concurrent invocations, both about to publish
InitRace ==
    /\ \E o1, o2 \in PublishPayloads :
          /\ InitAtPublish(o1)
          /\ other = SavedAtPublish(2, o2)
    /\ InitRemote

\* the other invocation runs next (the two run on separate workers; any
\* interleaving of their calls can occur)
Switch ==
    /\ other.id # 0
    /\ other.pc # "done"
    /\ Resume(other)
    /\ other' = Saved(3 - other.id)
    /\ UNCHANGED <<event, fetchVars, runVars, troubleshooting_steps, remoteVars>>

NextRace == PublishStep \/ Switch

SpecRace == InitRace /\ [][NextRace]_vars

\* one invocation about to publish, re-invoked after it has ended
InitRetry ==
    /\ \E o1 \in PublishPayloads : InitAtPublish(o1)
    /\ other = NoOther
    /\ InitRemote

\* a later invocation, started after the first one has ended, reaches line 193
Reinvoke ==
    /\ other = NoOther
    /\ pc = "done"
    /\ \E out \in PublishPayloads : Resume(SavedAtPublish(2, out))
    /\ other' = Saved(1)
    /\ UNCHANGED <<event, fetchVars, runVars, troubleshooting_steps, remoteVars>>

NextRetry == PublishStep \/ Reinvoke

SpecRetry == InitRetry /\ [][NextRetry]_vars

\* ================================================================ claims
MutatingOps == {"create_ref", "create_blob", "create_tree", "create_commit",
                "update_ref", "create_pr"}
PublishOps == MutatingOps \cup {"get_base_ref", "exists_check", "get_tree"}
ModelOps == {"invoke_model"}

Issued(ops) == {i \in 1..Len(calls) : calls[i].op \in ops}
Failed(c) == c.status \in {"http", "net"}

\* C1: when the existence check finds a ref at the payload's branch name
\* (status 200), no mutating call (create-ref, create-blob, create-tree,
\* create-commit, update-ref, create-pull-request) is ever issued, and the
\* publish has ended with the "already exists" conflict error.
C1_ConflictAbortsBeforeMutation ==
    (\E i \in 1..Len(calls) : calls[i].op = "exists_check" /\ calls[i].status = "200")
    => /\ Issued(MutatingOps) = {}
       /\ pc = "done"
       /\ result.detail = "Branch already exists"

C1_Witness ==
    /\ pc = "done"
    /\ calls # <<>>
    /\ new_branch_name \in BranchNames
    /\ refs[new_branch_name] # NoObj
    /\ calls[Len(calls)] = Call("exists_check", <<new_branch_name>>, "200")
    /\ result.detail = "Branch already exists"

\* C2: no call of the publish sequence is issued after a call of the publish
\* sequence that failed (non-success status or network error); in particular
\* no create-pull-request after a failed update-ref.
C2_FailedStepStopsPublish ==
    \A i, j \in Issued(PublishOps) : (i < j) => ~Failed(calls[i])

\* C3: lambda_handler never ends by an exception leaving it.
C3_NeverRaises ==
    result.kind # "raised"

\* the texts extract_error_with_context can return that are failure signals
IsFailureSignal(text) == text # <<>> /\ Contains(ToLower(text), Marker)

\* C4: when the latest run's conclusion is not "failure", the value reported
\* is not a failure signal, no model call and no publish call is issued, and
\* the invocation ends as a success.
C4_NotFailedIsNoOp ==
    (workflow_runs # <<>> /\ workflow_runs[1].conclusion # "failure")
    => /\ error_message.t = "str" => ~IsFailureSignal(error_message.s)
       /\ Issued(ModelOps \cup PublishOps) = {}
       /\ pc = "done" => (result.kind = "returned" /\ result.body = "success")

\* C5: a parsed response without a files key, or with an empty files mapping,
\* never leads to a mutating call, and the invocation ends as an error.
C5_ZeroFilesNeverPublished ==
    (fixed_code.kind = "no_files" \/ (fixed_code.kind = "payload" /\ fixed_code.files = <<>>))
    => /\ Issued(MutatingOps) = {}
       /\ pc = "done" => (result.kind = "returned" /\ result.body = "Error")

\* C6: when the extracted failure signal is empty, no model call and no
\* publish call is issued and the invocation ends with the input error.
C6_EmptySignalStops ==
    (error_message = Str(<<>>))
    => /\ Issued(ModelOps \cup PublishOps) = {}
       /\ pc = "done" => result.body = "Missing required information"

\* the path -> content mapping of the parsed response
PayloadPathsOf(out) == {out.files[i].path : i \in 1..Len(out.files)}
PayloadContentOf(out, p) ==
    out.files[CHOOSE i \in 1..Len(out.files) : out.files[i].path = p].content

\* C7: for a non-empty files mapping the created tree is the tree of the
\* base tip commit overridden by the payload: each payload path holds the
\* blob of its (stripped) content, every other base path keeps its entry.
C7_TreeIsBaseOverriddenByPayload ==
    (new_tree_sha # NoObj /\ fixed_code.files # <<>>)
    => LET base == refs["main"].tree.entries
           made == new_tree_sha.entries
       IN  /\ DOMAIN made = (DOMAIN base) \cup PayloadPathsOf(fixed_code)
           /\ \A p \in DOMAIN made :
                 IF p \in PayloadPathsOf(fixed_code)
                 THEN /\ made[p].sha = Blob(Strip(PayloadContentOf(fixed_code, p)))
                      /\ made[p].type = "blob"
                 ELSE made[p] = base[p]

C7_Witness ==
    /\ new_tree_sha # NoObj
    /\ Len(fixed_code.files) = 2
    /\ \E p \in DOMAIN refs["main"].tree.entries : p \notin PayloadPathsOf(fixed_code)
    /\ \E p \in DOMAIN refs["main"].tree.entries : p \in PayloadPathsOf(fixed_code)
    /\ \E i \in 1..2 : Strip(fixed_code.files[i].content) # fixed_code.files[i].content

\* a line contains the marker, letter case ignored
HasMarkerCI(line) ==
    \E i \in 1..(Len(line) - Len(Marker) + 1) :
        \A j \in 1..Len(Marker) : Lower(line[i + j - 1]) = Marker[j]

MatchingLines(text) == SelectSeq(SplitLines(text), HasMarkerCI)

\* C8: the extractor applied to the failed run's log returns the lines from
\* the first line with the marker to the end of the log, trimmed; the empty
\* text when no line has the marker.
C8_TailFromFirstMatch ==
    (pc = "extracted")
    => LET lines == SplitLines(log_content)
           hits == {i \in 1..Len(lines) : HasMarkerCI(lines[i])}
       IN  IF hits = {} THEN error_message.s = <<>>
           ELSE LET k == CHOOSE i \in hits : \A j \in hits : i <= j
                IN  error_message.s = Strip(JoinLines(SubSeq(lines, k, Len(lines))))

\* C9 as stated: the result is the lines with the marker, in order, joined by
\* newlines, each line unmodified.
C9_AllMatchesUnmodified ==
    (pc = "extracted") => error_message.s = JoinLines(MatchingLines(log_content))

\* C9 amended: the result is the lines with the marker (letter case ignored),
\* in original order, repeated lines kept, each line stripped of leading and
\* trailing whitespace, joined by newlines.
C9_AllMatchesStripped ==
    (pc = "extracted")
    => LET hit == MatchingLines(log_content)
       IN  error_message.s = JoinLines([i \in 1..Len(hit) |-> Strip(hit[i])])

C9_Witness ==
    /\ pc = "extracted"
    /\ LET lines == SplitLines(log_content)
       IN  /\ \E i, j \in 1..Len(lines) :
                 /\ i < j /\ lines[i] = lines[j]
                 /\ HasMarkerCI(lines[i])
                 /\ Strip(lines[i]) # lines[i]
                 /\ lines[i] # ToLower(lines[i])
           /\ \E i \in 1..Len(lines) : ~HasMarkerCI(lines[i])
    /\ Len(SplitLines(error_message.s)) = 2

\* C10: once the directory listing call or a file content call has failed, it
\* is the last call issued and the invocation has returned the error response.
C10_FetchFailureStops ==
    \A i \in Issued({"list_directory", "get_file"}) :
        Failed(calls[i])
        => /\ i = Len(calls)
           /\ pc = "done"
           /\ result.kind = "returned"
           /\ result.body = "Error"


\* a regular file whose name ends with .tf or .tfvars
IsTerraformFile(item) ==
    /\ item.type = "file"
    /\ \E suffix \in { <<".", "t", "f">>, <<".", "t", "f", "v", "a", "r", "s">> } :
          /\ Len(item.name) >= Len(suffix)
          /\ \A k \in 1..Len(suffix) :
                item.name[Len(item.name) - Len(suffix) + k] = suffix[k]

\* the names the content retrieval calls issued so far were made for, in order
FetchedNames ==
    LET got == SelectSeq(calls, LAMBDA c : c.op = "get_file")
    IN  [i \in 1..Len(got) |-> got[i].arg]

RECURSIVE BlocksOf(_)
BlocksOf(items) ==
    IF items = <<>> THEN <<>>
    ELSE <<"F", "i", "l", "e", ":", " ">> \o items[1].name \o <<NL>>
         \o FileText \o <<NL, NL>> \o BlocksOf(Tail(items))

\* the listing call succeeded and fetch_files_from_github is running or has
\* just ended (returned, or raised on a content retrieval)
InFetcher ==
    /\ calls # <<>>
    /\ calls[1] = Call("list_directory", <<>>, "200")
    /\ calls[Len(calls)].op \in {"list_directory", "get_file"}

\* C11: content is retrieved only for the regular files of the listing whose
\* name ends with .tf or .tfvars, in listing order; when the fetcher returns,
\* every such entry was retrieved once and the text is one block per such
\* entry in listing order (the empty text when there is none), with no error.
C11_FetchesExactlyTerraformFiles ==
    InFetcher
    => LET want == SelectSeq(listing, IsTerraformFile)
       IN  /\ Len(FetchedNames) <= Len(want)
           /\ \A i \in 1..Len(FetchedNames) : FetchedNames[i] = want[i].name
           /\ pc = "runs"
              => /\ Len(FetchedNames) = Len(want)
                 /\ repo_files_content = BlocksOf(want)
                 /\ result = NoResult

C11_Witness ==
    /\ InFetcher
    /\ pc = "runs"
    /\ \E i, j \in 1..Len(listing) :
          /\ IsTerraformFile(listing[i])
          /\ listing[j].type = "dir"
    /\ repo_files_content # <<>>

\* C11 (no entry qualifies): the fetcher has returned the empty text for a
\* listing that has entries
C11_WitnessEmpty ==
    /\ InFetcher
    /\ pc = "runs"
    /\ listing # <<>>
    /\ repo_files_content = <<>>


\* the calls that follow the creation of the branch ref
PostRefOps == {"create_blob", "create_tree", "create_commit", "update_ref", "create_pr"}

HasIssued(cs, ops) == \E i \in 1..Len(cs) : cs[i].op \in ops
HasCall(cs, op, status) == \E i \in 1..Len(cs) : cs[i].op = op /\ cs[i].status = status

\* C12: of two concurrent invocations publishing the same branch name, at most
\* one has its create-ref accepted and at most one issues a create-blob,
\* create-tree, create-commit, update-ref or create-pull-request call; the
\* one whose create-ref was not accepted ended with the create-branch error.
C12_AtMostOneProceeds ==
    (other.id # 0 /\ other.new_branch_name = new_branch_name)
    => /\ ~(HasCall(calls, "create_ref", "201") /\ HasCall(other.calls, "create_ref", "201"))
       /\ ~(HasIssued(calls, PostRefOps) /\ HasIssued(other.calls, PostRefOps))
       /\ (HasIssued(calls, {"create_ref"}) /\ ~HasCall(calls, "create_ref", "201"))
          => (pc = "done" /\ result.detail = "Failed to create branch")
       /\ (HasIssued(other.calls, {"create_ref"}) /\ ~HasCall(other.calls, "create_ref", "201"))
          => (other.pc = "done" /\ other.result.detail = "Failed to create branch")

C12_Witness ==
    /\ other.id # 0
    /\ other.new_branch_name = new_branch_name
    /\ HasCall(calls, "exists_check", "404")
    /\ HasCall(other.calls, "exists_check", "404")
    /\ HasIssued(calls, {"create_ref"})
    /\ HasIssued(other.calls, {"create_ref"})
    /\ \/ HasCall(calls, "create_pr", "201") /\ other.result.detail = "Failed to create branch"
       \/ HasCall(other.calls, "create_pr", "201") /\ result.detail = "Failed to create branch"


\* the first invocation created its branch ref and then failed
FirstFailedAfterRef ==
    /\ other.id = 1
    /\ HasCall(other.calls, "create_ref", "201")
    /\ other.result.body # "success"

\* C13: after a publish that failed after it created its branch ref, the ref
\* is still there, and a later invocation with the same branch name issues no
\* mutating call and, once it has made its existence check, has ended there.
C13_RetryAbortsAtExistsCheck ==
    /\ (pc = "done" /\ result.body # "success" /\ HasCall(calls, "create_ref", "201"))
       => refs[new_branch_name] # NoObj
    /\ FirstFailedAfterRef
       => /\ refs[other.new_branch_name] # NoObj
          /\ (new_branch_name = other.new_branch_name)
             => /\ ~HasIssued(calls, MutatingOps)
                /\ HasIssued(calls, {"exists_check"})
                   => (pc = "done" /\ calls[Len(calls)].op = "exists_check")


\* C14: within one invocation no call is issued twice: every call site runs
\* at most once, content retrieval at most once per listed file and
\* create-blob at most once per payload file, whatever calls fail.
C14_NoCallIssuedTwice ==
    \A i, j \in 1..Len(calls) :
        (i < j) => (calls[i].op # calls[j].op \/ calls[i].arg # calls[j].arg)

C14_Witness ==
    /\ pc = "done"
    /\ result.body = "success"
    /\ Cardinality(Issued({"get_file"})) = 2
    /\ Cardinality(Issued({"create_blob"})) = 2
    /\ Cardinality(Issued({"invoke_model"})) = 2
    /\ \E i \in 1..Len(calls) : Failed(calls[i])


\* the order of the publish calls for n payload files
PublishOrder(n) ==
    <<"get_base_ref", "exists_check", "create_ref">>
    \o [i \in 1..n |-> "create_blob"]
    \o <<"get_tree", "create_tree", "create_commit", "update_ref", "create_pr">>

\* C15: in a successful publish the publish calls are, in this order: resolve
\* the tip of main, existence check, create ref, one create-blob per file (in
\* payload order), get base tree, create tree, create commit, update ref,
\* create pull request; the branch ref is created at the base tip; the commit
\* has the base tip as its only parent and points at the new tree; the branch
\* ends at the new commit; the pull request goes from the branch into main.
C15_SuccessfulPublishOrder ==
    /\ pc \in {"blobs", "get_tree", "create_tree", "create_commit", "update_ref"}
       => refs[new_branch_name] = refs["main"]
    /\ (pc = "done" /\ result.body = "success")
       => LET pub == SelectSeq(calls, LAMBDA c : c.op \in PublishOps)
              blobCalls == SelectSeq(calls, LAMBDA c : c.op = "create_blob")
          IN  /\ [i \in 1..Len(pub) |-> pub[i].op] = PublishOrder(Len(fixed_code.files))
              /\ \A i \in 1..Len(blobCalls) :
                    blobCalls[i].arg = <<fixed_code.files[i].path>>
              /\ new_commit_sha.parents = <<refs["main"]>>
              /\ new_commit_sha.tree = new_tree_sha
              /\ refs[new_branch_name] = new_commit_sha
              /\ prs = {[head |-> new_branch_name, base |-> "main"]}

C15_Witness ==
    /\ pc = "done"
    /\ result.body = "success"
    /\ Len(fixed_code.files) = 2
    /\ Cardinality(Issued({"create_blob"})) = 2
    /\ refs[new_branch_name] = new_commit_sha


\* the calls of the git object sequence whose response body is read unchecked
GitObjectOps == {"get_base_ref", "create_blob", "get_tree", "create_tree", "create_commit"}

\* C16: an invocation that ended on a failed git-object call (resolve base
\* ref, create blob, get tree, create tree, create commit) returned the
\* generic "Error: ..." response, not "Missing required information: ...".
C16_GitFailureIsGenericError ==
    (pc = "done" /\ calls # <<>> /\ calls[Len(calls)].op \in GitObjectOps
       /\ Failed(calls[Len(calls)]))
    => (result.kind = "returned" /\ result.body = "Error")

\* C17: the success response is returned only after create-pull-request
\* answered 201; a response returned after a successful diagnosis without
\* that is an error response.
C17_SuccessOnlyAfterPullRequest ==
    /\ result.body = "success"
       => (calls # <<>> /\ calls[Len(calls)] = Call("create_pr", <<new_branch_name>>, "201"))
    /\ (result.kind = "returned" /\ HasCall(calls, "invoke_model", "ok")
          /\ ~HasCall(calls, "create_pr", "201"))
       => result.body \in {"Error", "Missing required information"}

C17_Witness ==
    /\ result.kind = "returned"
    /\ calls # <<>>
    /\ calls[Len(calls)].op = "create_pr"
    /\ calls[Len(calls)].status = "http"
    /\ HasCall(calls, "update_ref", "200")
    /\ result.body = "Error"

\* C18: "Latest workflow run did not fail." is the reported value only when
\* the latest run's conclusion is not "failure".
C18_SentinelOnlyWhenNotFailed ==
    (error_message = Str(DidNotFailText))
    => (workflow_runs # <<>> /\ workflow_runs[1].conclusion # "failure")

\* C19: no step changes refs/heads/main, and a ref that changes is the
\* payload's branch, either created where no ref was or moved after this
\* invocation created it.
C19_MainRefUnchanged ==
    [][ /\ refs'["main"] = refs["main"]
        /\ \A b \in BranchNames :
              (refs'[b] # refs[b])
              => /\ b = new_branch_name
                 /\ refs[b] = NoObj \/ HasCall(calls, "create_ref", "201") ]_vars

C19_Witness ==
    /\ pc = "done"
    /\ new_branch_name = "main"
    /\ HasIssued(calls, {"create_ref"})
    /\ result.detail = "Failed to create branch"

====
